---- MODULE Spec2Model ----
(***************************************************************************)
(* Transaction lifecycle of tx-manager (src/src/Transaction.js).           *)
(*                                                                         *)
(* Every Transaction of one manager is an asynchronous activity.  An       *)
(* action of the model is one synchronous segment of the JavaScript code:  *)
(* the public call, or the completion of the pending `await` followed by   *)
(* everything the code runs until its next `await`.                        *)
(*                                                                         *)
(* Amounts of gas price are carried in units of 10^7 wei, so that one gwei *)
(* is GweiUnits = 100 units and the percentage arithmetic of               *)
(* _increaseGasPrice on whole-gwei prices is exact.                        *)
(***************************************************************************)
EXTENDS Integers, Sequences, FiniteSets, TLC

\* ---------------------------------------------------------------- bounds
Transactions == {"A", "B"}      \* the Transactions created by the manager
Replaceable == {"A"}            \* the Transactions callers replace or cancel
MaxResends == 1                 \* send() calls on an executed Transaction
MaxReplaces == 1                \* replace()/cancel() invocations in a run
InitialCounts == {0, 1}         \* the account's transaction count at start

\* the inputs of the gas-price escalation on its own: prices in units of
\* 10^7 wei, the bump percentage, the minimum bump and the maximum in gwei
EscalationPrices == {0, 50, 100, 150, 199, 250, 300, 333, 400, 990}
BumpPercentages == {0, 10, 50}
MinGweiBumps == {0, 1, 2}
MaxGasPrices == {1, 3, 10}

\* ------------------------------------------------------------- constants
GweiUnits == 100                \* parseUnits(x, 'gwei'), in units of 10^7 wei
CancelGasLimit == 21000         \* gasLimit of the cancel request
BlockGasLimitPct == 95          \* Math.floor(lastBlock.gasLimit * 0.95)
WigglePct == 130                \* _getGasPrice(1.3)
PriceCap == 1000000             \* above every price the configuration allows

\* the numeric policy of the manager (config), multiplier in percent
Policy ==
  [GAS_LIMIT_MULTIPLIER |-> 120, MAX_GAS_PRICE |-> 3, MIN_GWEI_BUMP |-> 1,
   GAS_BUMP_PERCENTAGE |-> 10]

\* what the network collaborator reports
Network ==
  [estimateGas |-> 50000, blockGasLimit |-> 60000, gasPriceMinimum |-> 5,
   chainId |-> 4]

\* what callers supply: a gas limit, a gas price (gwei), a nonce field
Caller == [gasLimit |-> 30000, gasPriceGwei |-> 1, nonce |-> 9]

\* JavaScript `undefined` / NaN of a numeric field
Undef == -1
None == "none"

Min(a, b) == IF a <= b THEN a ELSE b
Max(a, b) == IF a >= b THEN a ELSE b

\* !x of a numeric field: undefined, NaN and 0 are falsy
Falsy(x) == x = Undef \/ x = 0

VARIABLES
  executed,     \* [t] this.executed
  tx,           \* [t] this.tx, the request under construction
  hashes,       \* [t] this.hashes, indices into log
  receipt,      \* [t] this.receipt, an index into log or 0
  events,       \* [t] the 'transactionHash' events emitted, in order
  pc,           \* [t] the await _execute is suspended at, or its outcome
  txHash,       \* [t] the broadcast _send (called by _execute) is handling
  targetLive,   \* [t] this.tx is still the object captured by line 121
  rpc,          \* [t] the await a replace()/cancel() call is suspended at
  rtx,          \* [t] the argument object of the replace call in flight
  rtxHash,      \* [t] the broadcast _send (called by replace) is handling
  nonce,        \* manager._nonce
  mutex,        \* manager._mutex: holder and FIFO of waiters
  config,       \* manager.config, shared by all Transactions
  log,          \* every sign-and-send call, with what the network did to it
  chainCount,   \* the account's transaction count on the network
  n0,           \* history: the count first stored into manager._nonce
  prepared,     \* history: [t] line 120 has assigned a nonce to t
  sendCalls,    \* history: number of send() invocations
  thrown,       \* history: number of 'already executed' errors thrown
  replaces,     \* history: the replace()/cancel() invocations, <<t, fields>>
  resends,      \* the repeated send() calls the callers will still make
  escalation    \* history: the last call of _increaseGasPrice and its result

vars == <<executed, tx, hashes, receipt, events, pc, txHash, targetLive,
          rpc, rtx, rtxHash, nonce, mutex, config, log, chainCount, n0,
          prepared, sendCalls, thrown, replaces, resends, escalation>>

txVars == <<executed, tx, hashes, receipt, events, pc, txHash, targetLive>>
replaceVars == <<rpc, rtx, rtxHash>>
managerVars == <<nonce, mutex, config>>
networkVars == <<log, chainCount>>
historyVars == <<n0, prepared, sendCalls, thrown, replaces, resends,
                 escalation>>

\* ------------------------------------------------------------- requests
Request(to, value, gasLimit, gasPrice, nonceField) ==
  [to |-> to, value |-> value, gasLimit |-> gasLimit, gasPrice |-> gasPrice,
   nonce |-> nonceField, chainId |-> Undef]

\* the payloads a caller creates a Transaction with
CreateRequests ==
  { Request("dest", 1, Undef, Undef, Undef),
    Request("dest", 1, Caller.gasLimit, Caller.gasPriceGwei * GweiUnits,
            Undef) }

\* the fields a caller passes to replace()
ReplaceRequests ==
  { Request("other", 2, Undef, Caller.gasPriceGwei * GweiUnits,
            Caller.nonce) }

\* the fields cancel() passes to replace(), lines 66-71
CancelRequest == Request("self", 0, CancelGasLimit, Undef, Undef)

\* --------------------------------------------------------------- manager
\* acquire() of the manager's mutex: taken at once when free, else queued
MutexAcquire(m, t) ==
  IF m.holder = None THEN [m EXCEPT !.holder = t]
  ELSE [m EXCEPT !.queue = Append(@, t)]

\* release: the permit passes to the longest waiting acquirer, if any
MutexRelease(m) ==
  IF m.queue = <<>> THEN [m EXCEPT !.holder = None]
  ELSE [holder |-> Head(m.queue), queue |-> Tail(m.queue)]

\* --------------------------------------------------------------- network
\* the next nonce the client fills in when a request carries none
PendingCount ==
  LET taken == { log[i].slot : i \in { j \in DOMAIN log :
                                          log[j].status = "pending" } }
  IN CHOOSE n \in chainCount..(chainCount + Len(log)) :
       /\ n \notin taken
       /\ \A m \in chainCount..(n - 1) : m \in taken

\* the nonce under which the network would process the logged request i
SlotOf(i) == IF log[i].nonce = Undef THEN PendingCount ELSE log[i].nonce

LogEntry(t, txr) ==
  [owner |-> t, nonce |-> txr.nonce, gasPrice |-> txr.gasPrice,
   to |-> txr.to, value |-> txr.value, status |-> "sent", slot |-> Undef]

\* ------------------------------------------------------------- gas price
\* lines 166-175: gasPriceMinimum * wiggle, scaled by 10^18; for every
\* positive oracle price the product lies above PriceCap, where it is cut
_getGasPrice ==
  LET gasPricePct == Network.gasPriceMinimum * WigglePct
  IN IF gasPricePct = 0 THEN 0 ELSE PriceCap

\* lines 113-115
PreparedGasPrice(cfg) == Min(_getGasPrice, cfg.MAX_GAS_PRICE * GweiUnits)

\* mutant: the bumped price is not cut at the maximum
_increaseGasPrice_NoCap(oldGasPrice, cfg) ==
  LET maxGasPrice == cfg.MAX_GAS_PRICE * GweiUnits
      minGweiBump == cfg.MIN_GWEI_BUMP * GweiUnits
  IN IF oldGasPrice >= maxGasPrice THEN oldGasPrice
     ELSE Max((oldGasPrice * (100 + cfg.GAS_BUMP_PERCENTAGE)) \div 100,
              oldGasPrice + minGweiBump)

\* mutant: the price is never bumped
_increaseGasPrice_NoBump(oldGasPrice, cfg) == oldGasPrice

\* lines 142-157: the price this.tx.gasPrice holds after the call
_increaseGasPrice(oldGasPrice, cfg) ==
  LET maxGasPrice == cfg.MAX_GAS_PRICE * GweiUnits
      minGweiBump == cfg.MIN_GWEI_BUMP * GweiUnits
      newGasPrice == Max((oldGasPrice * (100 + cfg.GAS_BUMP_PERCENTAGE)) \div 100,
                         oldGasPrice + minGweiBump)
  IN IF oldGasPrice >= maxGasPrice THEN oldGasPrice
     ELSE Min(newGasPrice, maxGasPrice)

\* lines 146-149 and 156: what _increaseGasPrice returns
Bumps(oldGasPrice, cfg) == oldGasPrice < cfg.MAX_GAS_PRICE * GweiUnits

\* a call of _increaseGasPrice: the price it found and what it returned
Escalation(oldGasPrice, cfg) ==
  [oldGasPrice |-> oldGasPrice, returned |-> Bumps(oldGasPrice, cfg)]

NoCall == [oldGasPrice |-> Undef, returned |-> FALSE]

\* lines 50-51 and 108-109
ScaledGasLimit(gas, cfg) ==
  IF Falsy(cfg.BLOCK_GAS_LIMIT) THEN Undef   \* Math.min(x, undefined) is NaN
  ELSE Min((gas * cfg.GAS_LIMIT_MULTIPLIER) \div 100, cfg.BLOCK_GAS_LIMIT)

\* ------------------------------------------------------------------ Init
\* the configuration the manager starts with: the block gas limit is not
\* known yet and gas is estimated only for requests without a gas limit
DefaultConfig ==
  [BLOCK_GAS_LIMIT |-> Undef, ESTIMATE_GAS |-> FALSE,
   GAS_LIMIT_MULTIPLIER |-> Policy.GAS_LIMIT_MULTIPLIER,
   MAX_GAS_PRICE |-> Policy.MAX_GAS_PRICE,
   MIN_GWEI_BUMP |-> Policy.MIN_GWEI_BUMP,
   GAS_BUMP_PERCENTAGE |-> Policy.GAS_BUMP_PERCENTAGE]

InitCommon ==
  /\ executed = [t \in Transactions |-> FALSE]
  /\ hashes = [t \in Transactions |-> <<>>]
  /\ receipt = [t \in Transactions |-> 0]
  /\ events = [t \in Transactions |-> <<>>]
  /\ pc = [t \in Transactions |-> "created"]
  /\ txHash = [t \in Transactions |-> 0]
  /\ targetLive = [t \in Transactions |-> TRUE]
  /\ rpc = [t \in Transactions |-> None]
  /\ rtx = [t \in Transactions |-> CancelRequest]
  /\ rtxHash = [t \in Transactions |-> 0]
  /\ nonce = Undef
  /\ mutex = [holder |-> None, queue |-> <<>>]
  /\ log = <<>>
  /\ n0 = Undef
  /\ prepared = [t \in Transactions |-> FALSE]
  /\ sendCalls = 0
  /\ thrown = 0
  /\ replaces = <<>>
  /\ escalation = NoCall

Init ==
  /\ InitCommon
  /\ \E r \in CreateRequests :
       tx = [t \in Transactions |->
               IF t = "A" THEN r ELSE Request("dest", 1, Undef, Undef, Undef)]
  /\ config = DefaultConfig
  /\ chainCount \in InitialCounts
  /\ resends = MaxResends

\* -------------------------------------------------------------- _prepare
\* The await _prepare suspends at when it runs on from its stage k
\* (1 block gas limit, 2 gas limit, 3 gas price, 4 manager nonce), lines
\* 100-121: a stage whose condition is false is passed without suspending.
PrepareAwait(k, txr, cfg, mn) ==
  IF k <= 1 /\ Falsy(cfg.BLOCK_GAS_LIMIT) THEN "getBlock"
  ELSE IF k <= 2 /\ (Falsy(txr.gasLimit) \/ cfg.ESTIMATE_GAS) THEN "estimateGas"
  ELSE IF k <= 3 /\ Falsy(txr.gasPrice) THEN "getGasPrice"
  ELSE IF k <= 4 /\ Falsy(mn) THEN "getLastNonce"
  ELSE "getChainId"

\* mutant: the request receives the nonce after the manager's one
_prepare_OffByOne(t, k, txr, cfg, mn) ==
  LET next == PrepareAwait(k, txr, cfg, mn)
      assigned == next = "getChainId"
  IN /\ pc' = [pc EXCEPT ![t] = next]
     /\ tx' = [tx EXCEPT ![t] = IF assigned THEN [txr EXCEPT !.nonce = mn + 1]
                                ELSE txr]
     /\ prepared' = [prepared EXCEPT ![t] = @ \/ assigned]
     /\ targetLive' = [targetLive EXCEPT ![t] = TRUE]
     /\ config' = cfg
     /\ nonce' = mn

\* the manager's nonce is written to the request right before line 121
\* evaluates `this.tx` as the target of the chain id and suspends
_prepare(t, k, txr, cfg, mn) ==
  LET next == PrepareAwait(k, txr, cfg, mn)
      assigned == next = "getChainId"
  IN /\ pc' = [pc EXCEPT ![t] = next]
     /\ tx' = [tx EXCEPT ![t] = IF assigned THEN [txr EXCEPT !.nonce = mn]
                                ELSE txr]
     /\ prepared' = [prepared EXCEPT ![t] = @ \/ assigned]
     /\ targetLive' = [targetLive EXCEPT ![t] = TRUE]
     /\ config' = cfg
     /\ nonce' = mn

\* ------------------------------------------------------------------ send
\* mutant: send without the check of this.executed
send_NoGuard(t) ==
  /\ sendCalls < Cardinality(Transactions) + MaxResends
  /\ sendCalls' = sendCalls + 1
  /\ executed' = [executed EXCEPT ![t] = TRUE]
  /\ mutex' = MutexAcquire(mutex, t)
  /\ pc' = [pc EXCEPT ![t] = "acquire"]
  /\ UNCHANGED <<tx, hashes, receipt, events, txHash, targetLive,
                 nonce, config, thrown, resends>>
  /\ UNCHANGED <<replaceVars, networkVars, n0, prepared, replaces,
                 escalation>>

\* lines 26-33 and line 81: the second call throws; the first marks the
\* Transaction executed and runs _execute up to the mutex acquisition
send(t) ==
  /\ executed[t] => resends > 0
  /\ sendCalls' = sendCalls + 1
  /\ IF executed[t]
     THEN /\ thrown' = thrown + 1
          /\ resends' = resends - 1
          /\ UNCHANGED <<txVars, managerVars>>
     ELSE /\ executed' = [executed EXCEPT ![t] = TRUE]
          /\ mutex' = MutexAcquire(mutex, t)
          /\ pc' = [pc EXCEPT ![t] = "acquire"]
          /\ UNCHANGED <<tx, hashes, receipt, events, txHash, targetLive,
                         nonce, config, thrown, resends>>
  /\ UNCHANGED <<replaceVars, networkVars, n0, prepared, replaces,
                 escalation>>

\* mutant: _prepare is entered without waiting for the mutex
_execute_NoGate(t) ==
  /\ pc[t] = "acquire"
  /\ _prepare(t, 1, tx[t], config, nonce)
  /\ UNCHANGED <<executed, hashes, receipt, events, txHash, mutex,
                 replaceVars, networkVars, n0, sendCalls, thrown, replaces,
                 resends, escalation>>

\* line 81 resolved: the Transaction holds the mutex and enters _prepare
_execute(t) ==
  /\ pc[t] = "acquire"
  /\ mutex.holder = t
  /\ _prepare(t, 1, tx[t], config, nonce)
  /\ UNCHANGED <<executed, hashes, receipt, events, txHash, mutex,
                 replaceVars, networkVars, n0, sendCalls, thrown, replaces,
                 resends, escalation>>

\* lines 101-102 resolved
getBlock(t) ==
  /\ pc[t] = "getBlock"
  /\ _prepare(t, 2, tx[t],
              [config EXCEPT !.BLOCK_GAS_LIMIT =
                 (Network.blockGasLimit * BlockGasLimitPct) \div 100],
              nonce)
  /\ UNCHANGED <<executed, hashes, receipt, events, txHash, mutex,
                 replaceVars, networkVars, n0, sendCalls, thrown, replaces,
                 resends, escalation>>

\* lines 106-110 resolved
estimateGas(t) ==
  /\ pc[t] = "estimateGas"
  /\ _prepare(t, 3,
              IF Falsy(tx[t].gasLimit)
              THEN [tx[t] EXCEPT !.gasLimit = ScaledGasLimit(Network.estimateGas, config)]
              ELSE tx[t],
              config, nonce)
  /\ UNCHANGED <<executed, hashes, receipt, events, txHash, mutex,
                 replaceVars, networkVars, n0, sendCalls, thrown, replaces,
                 resends, escalation>>

\* lines 113-115 resolved
getGasPrice(t) ==
  /\ pc[t] = "getGasPrice"
  /\ _prepare(t, 4, [tx[t] EXCEPT !.gasPrice = PreparedGasPrice(config)],
              config, nonce)
  /\ UNCHANGED <<executed, hashes, receipt, events, txHash, mutex,
                 replaceVars, networkVars, n0, sendCalls, thrown, replaces,
                 resends, escalation>>

\* lines 118, 183-185 resolved: the network reports the account's count
_getLastNonce(t) ==
  /\ pc[t] = "getLastNonce"
  /\ _prepare(t, 5, tx[t], config, chainCount)
  /\ n0' = IF n0 = Undef THEN chainCount ELSE n0
  /\ UNCHANGED <<executed, hashes, receipt, events, txHash, mutex,
                 replaceVars, networkVars, sendCalls, thrown, replaces,
                 resends, escalation>>

\* line 121 resolved, then _send is entered (line 132): the chain id goes
\* to the object line 121 captured, the request sent is the current this.tx
getChainId(t) ==
  /\ pc[t] = "getChainId"
  /\ LET txr == IF targetLive[t]
                THEN [tx[t] EXCEPT !.chainId = Network.chainId] ELSE tx[t]
     IN /\ tx' = [tx EXCEPT ![t] = txr]
        /\ log' = Append(log, LogEntry(t, txr))
  /\ txHash' = [txHash EXCEPT ![t] = Len(log) + 1]
  /\ pc' = [pc EXCEPT ![t] = "broadcast"]
  /\ UNCHANGED <<executed, hashes, receipt, events, targetLive, managerVars,
                 replaceVars, chainCount, historyVars>>

\* lines 132-136: the network accepted the request and issued its hash
Accepted(i) ==
  [log EXCEPT ![i] = [@ EXCEPT !.status = "pending", !.slot = SlotOf(i)]]

_send(t) ==
  /\ pc[t] = "broadcast"
  /\ SlotOf(txHash[t]) >= chainCount
  /\ log' = Accepted(txHash[t])
  /\ hashes' = [hashes EXCEPT ![t] = Append(@, txHash[t])]
  /\ pc' = [pc EXCEPT ![t] = "waitReceipt"]
  /\ UNCHANGED <<executed, tx, receipt, events, txHash, targetLive,
                 managerVars, replaceVars, chainCount, historyVars>>

\* the network includes a pending request in a block
Mine(i) ==
  /\ log[i].status = "pending"
  /\ log[i].slot = chainCount
  /\ log' = [log EXCEPT ![i] = [@ EXCEPT !.status = "mined"]]
  /\ chainCount' = chainCount + 1
  /\ UNCHANGED <<txVars, managerVars, replaceVars, historyVars>>

\* mutant: the manager's nonce is not advanced
waitReceipt_NoAdvance(t) ==
  /\ pc[t] = "waitReceipt"
  /\ log[txHash[t]].status = "mined"
  /\ receipt' = [receipt EXCEPT ![t] = txHash[t]]
  /\ events' = [events EXCEPT ![t] = Append(@, txHash[t])]
  /\ nonce' = nonce
  /\ mutex' = MutexRelease(mutex)
  /\ pc' = [pc EXCEPT ![t] = "resolved"]
  /\ UNCHANGED <<executed, tx, hashes, txHash, targetLive, config,
                 replaceVars, networkVars, historyVars>>

\* lines 136-139 resolved, _send returns, then lines 86-89
waitReceipt(t) ==
  /\ pc[t] = "waitReceipt"
  /\ log[txHash[t]].status = "mined"
  /\ receipt' = [receipt EXCEPT ![t] = txHash[t]]
  /\ events' = [events EXCEPT ![t] = Append(@, txHash[t])]
  /\ nonce' = IF tx[t].nonce = Undef THEN Undef      \* undefined + 1 is NaN
            ELSE tx[t].nonce + 1
  /\ mutex' = MutexRelease(mutex)
  /\ pc' = [pc EXCEPT ![t] = "resolved"]
  /\ UNCHANGED <<executed, tx, hashes, txHash, targetLive, config,
                 replaceVars, networkVars, historyVars>>

NetworkAwaits ==
  {"getBlock", "estimateGas", "getGasPrice", "getLastNonce", "getChainId",
   "broadcast", "waitReceipt"}

\* mutant: the error leaves _execute without releasing the mutex
_executeThrows_NoRelease(t) ==
  /\ pc[t] \in NetworkAwaits
  /\ pc' = [pc EXCEPT ![t] = "rejected"]
  /\ log' = IF pc[t] = "broadcast"
            THEN [log EXCEPT ![txHash[t]] = [@ EXCEPT !.status = "rejected"]]
            ELSE log
  /\ UNCHANGED <<executed, tx, hashes, receipt, events, txHash, targetLive,
                 managerVars, replaceVars, chainCount, historyVars>>

\* mutant: a failed send drops the manager's nonce
_executeThrows_ResetsNonce(t) ==
  /\ pc[t] \in NetworkAwaits
  /\ pc' = [pc EXCEPT ![t] = "rejected"]
  /\ mutex' = MutexRelease(mutex)
  /\ nonce' = Undef
  /\ log' = IF pc[t] = "broadcast"
            THEN [log EXCEPT ![txHash[t]] = [@ EXCEPT !.status = "rejected"]]
            ELSE log
  /\ UNCHANGED <<executed, tx, hashes, receipt, events, txHash, targetLive,
                 config, replaceVars, chainCount, historyVars>>

\* a network call of _prepare or _send fails: _execute throws through the
\* finally of lines 88-90 and send's promise rejects
_executeThrows(t) ==
  /\ pc[t] \in NetworkAwaits
  /\ pc' = [pc EXCEPT ![t] = "rejected"]
  /\ mutex' = MutexRelease(mutex)
  /\ log' = IF pc[t] = "broadcast"
            THEN [log EXCEPT ![txHash[t]] = [@ EXCEPT !.status = "rejected"]]
            ELSE log
  /\ UNCHANGED <<executed, tx, hashes, receipt, events, txHash, targetLive,
                 nonce, config, replaceVars, chainCount, historyVars>>

\* --------------------------------------------------------------- replace
\* Math.max(this.tx.gasPrice, tx.gasPrice || 0), line 54: NaN when the
\* current request has no gas price yet
StartGasPrice(current, given) ==
  IF current = Undef THEN Undef
  ELSE Max(current, IF Falsy(given) THEN 0 ELSE given)

\* mutant: the replacement keeps the nonce field the caller passed
ReplaceSubmit_KeepsGivenNonce(t, r) ==
  LET start == StartGasPrice(tx[t].gasPrice, r.gasPrice)
      newtx == [r EXCEPT !.gasPrice = start]
      bumped == [newtx EXCEPT !.gasPrice = _increaseGasPrice(start, config)]
  IN IF start = Undef
     THEN /\ tx' = [tx EXCEPT ![t] = newtx]
          /\ rpc' = [rpc EXCEPT ![t] = None]
          /\ UNCHANGED <<log, rtxHash, escalation>>
     ELSE /\ tx' = [tx EXCEPT ![t] = bumped]
          /\ escalation' = Escalation(start, config)
          /\ log' = Append(log, LogEntry(t, bumped))
          /\ rtxHash' = [rtxHash EXCEPT ![t] = Len(log) + 1]
          /\ rpc' = [rpc EXCEPT ![t] = "broadcast"]

\* lines 53-58 with the entry of _send (line 132): the replacement takes the
\* nonce of the current request and a price no lower than the current one,
\* becomes this.tx, is bumped and sent; BigNumber.from throws on NaN in
\* line 145, after this.tx was overwritten
ReplaceSubmit(t, r) ==
  LET start == StartGasPrice(tx[t].gasPrice, r.gasPrice)
      newtx == [r EXCEPT !.nonce = tx[t].nonce, !.gasPrice = start]
      bumped == [newtx EXCEPT !.gasPrice = _increaseGasPrice(start, config)]
  IN IF start = Undef
     THEN /\ tx' = [tx EXCEPT ![t] = newtx]
          /\ rpc' = [rpc EXCEPT ![t] = None]
          /\ UNCHANGED <<log, rtxHash, escalation>>
     ELSE /\ tx' = [tx EXCEPT ![t] = bumped]
          /\ escalation' = Escalation(start, config)
          /\ log' = Append(log, LogEntry(t, bumped))
          /\ rtxHash' = [rtxHash EXCEPT ![t] = Len(log) + 1]
          /\ rpc' = [rpc EXCEPT ![t] = "broadcast"]

\* mutant: replace without the check of this.executed
replace_NoExecutedCheck(t, req) ==
  /\ Len(replaces) < MaxReplaces
  /\ rpc[t] = None
  /\ replaces' = Append(replaces, <<t, req>>)
  /\ IF Falsy(req.gasLimit)
     THEN /\ rpc' = [rpc EXCEPT ![t] = "estimateGas"]
          /\ rtx' = [rtx EXCEPT ![t] = req]
          /\ UNCHANGED <<tx, targetLive, rtxHash, log, escalation>>
     ELSE /\ ReplaceSubmit(t, req)
          /\ targetLive' = [targetLive EXCEPT ![t] = FALSE]
          /\ UNCHANGED rtx
  /\ UNCHANGED <<executed, hashes, receipt, events, pc, txHash, managerVars,
                 chainCount, n0, prepared, sendCalls, thrown, resends>>

\* lines 40-59 up to the first await; a caller awaits a replace or cancel of
\* a Transaction before it makes the next one on it
replace(t, req) ==
  /\ Len(replaces) < MaxReplaces
  /\ rpc[t] = None
  /\ replaces' = Append(replaces, <<t, req>>)
  /\ IF ~executed[t]
     THEN /\ tx' = [tx EXCEPT ![t] = req]
          /\ targetLive' = [targetLive EXCEPT ![t] = FALSE]
          /\ UNCHANGED <<rpc, rtx, rtxHash, log, escalation>>
     ELSE IF Falsy(req.gasLimit)
     THEN /\ rpc' = [rpc EXCEPT ![t] = "estimateGas"]
          /\ rtx' = [rtx EXCEPT ![t] = req]
          /\ UNCHANGED <<tx, targetLive, rtxHash, log, escalation>>
     ELSE /\ ReplaceSubmit(t, req)
          /\ targetLive' = [targetLive EXCEPT ![t] = FALSE]
          /\ UNCHANGED rtx
  /\ UNCHANGED <<executed, hashes, receipt, events, pc, txHash, managerVars,
                 chainCount, n0, prepared, sendCalls, thrown, resends>>

\* lines 64-72
cancel(t) == replace(t, CancelRequest)

\* lines 49-51 resolved, then lines 53-58
replaceEstimateGas(t) ==
  /\ rpc[t] = "estimateGas"
  /\ ReplaceSubmit(t, [rtx[t] EXCEPT
                         !.gasLimit = ScaledGasLimit(Network.estimateGas, config)])
  /\ targetLive' = [targetLive EXCEPT ![t] = FALSE]
  /\ rtx' = [rtx EXCEPT ![t] = CancelRequest]
  /\ UNCHANGED <<executed, hashes, receipt, events, pc, txHash, managerVars,
                 chainCount, n0, prepared, sendCalls, thrown, replaces,
                 resends>>

\* lines 132-136 for the _send called by replace
replaceSend(t) ==
  /\ rpc[t] = "broadcast"
  /\ SlotOf(rtxHash[t]) >= chainCount
  /\ log' = Accepted(rtxHash[t])
  /\ hashes' = [hashes EXCEPT ![t] = Append(@, rtxHash[t])]
  /\ rpc' = [rpc EXCEPT ![t] = "waitReceipt"]
  /\ UNCHANGED <<executed, tx, receipt, events, pc, txHash, targetLive, rtx,
                 rtxHash, managerVars, chainCount, historyVars>>

\* lines 136-139 for the _send called by replace; replace returns
replaceWaitReceipt(t) ==
  /\ rpc[t] = "waitReceipt"
  /\ log[rtxHash[t]].status = "mined"
  /\ receipt' = [receipt EXCEPT ![t] = rtxHash[t]]
  /\ events' = [events EXCEPT ![t] = Append(@, rtxHash[t])]
  /\ rpc' = [rpc EXCEPT ![t] = None]
  /\ rtxHash' = [rtxHash EXCEPT ![t] = 0]
  /\ UNCHANGED <<executed, tx, hashes, pc, txHash, targetLive, rtx,
                 managerVars, networkVars, historyVars>>

\* mutant: the error of replace is also passed to the promise of send
replaceThrows_RejectsSend(t) ==
  /\ rpc[t] \in {"estimateGas", "broadcast", "waitReceipt"}
  /\ rpc' = [rpc EXCEPT ![t] = None]
  /\ rtx' = [rtx EXCEPT ![t] = CancelRequest]
  /\ rtxHash' = [rtxHash EXCEPT ![t] = 0]
  /\ log' = IF rpc[t] = "broadcast"
            THEN [log EXCEPT ![rtxHash[t]] = [@ EXCEPT !.status = "rejected"]]
            ELSE log
  /\ pc' = [pc EXCEPT ![t] = "rejected"]
  /\ UNCHANGED <<executed, tx, hashes, receipt, events, txHash, targetLive,
                 managerVars, chainCount, n0, prepared, sendCalls, thrown,
                 replaces, resends, escalation>>

\* a network call of replace fails: the error goes to the caller of replace
replaceThrows(t) ==
  /\ rpc[t] \in {"estimateGas", "broadcast", "waitReceipt"}
  /\ rpc' = [rpc EXCEPT ![t] = None]
  /\ rtx' = [rtx EXCEPT ![t] = CancelRequest]
  /\ rtxHash' = [rtxHash EXCEPT ![t] = 0]
  /\ log' = IF rpc[t] = "broadcast"
            THEN [log EXCEPT ![rtxHash[t]] = [@ EXCEPT !.status = "rejected"]]
            ELSE log
  /\ UNCHANGED <<txVars, managerVars, chainCount, n0, prepared, sendCalls,
                 thrown, replaces, resends, escalation>>

\* ------------------------------------------------------------------ Next
Next ==
  \/ \E t \in Transactions : send(t)
  \/ \E t \in Transactions : _execute(t)
  \/ \E t \in Transactions : getBlock(t)
  \/ \E t \in Transactions : estimateGas(t)
  \/ \E t \in Transactions : getGasPrice(t)
  \/ \E t \in Transactions : _getLastNonce(t)
  \/ \E t \in Transactions : getChainId(t)
  \/ \E t \in Transactions : _send(t)
  \/ \E t \in Transactions : waitReceipt(t)
  \/ \E t \in Transactions : _executeThrows(t)
  \/ \E t \in Replaceable : \E req \in ReplaceRequests : replace(t, req)
  \/ \E t \in Replaceable : cancel(t)
  \/ \E t \in Transactions : replaceEstimateGas(t)
  \/ \E t \in Transactions : replaceSend(t)
  \/ \E t \in Transactions : replaceWaitReceipt(t)
  \/ \E t \in Transactions : replaceThrows(t)
  \/ \E i \in DOMAIN log : Mine(i)

Spec == Init /\ [][Next]_vars

\* every network call eventually settles and the event loop runs the
\* continuation of every settled promise
ExecuteStep(t) ==
  \/ _execute(t) \/ getBlock(t) \/ estimateGas(t) \/ getGasPrice(t)
  \/ _getLastNonce(t) \/ getChainId(t) \/ _send(t) \/ waitReceipt(t)
  \/ _executeThrows(t)

\* the account is new and Transaction A was created with its gas fields
\* and the callers send each Transaction once
InitFair ==
  /\ InitCommon
  /\ tx = [t \in Transactions |->
            IF t = "A"
            THEN Request("dest", 1, Caller.gasLimit,
                         Caller.gasPriceGwei * GweiUnits, Undef)
            ELSE Request("dest", 1, Undef, Undef, Undef)]
  /\ config = DefaultConfig
  /\ chainCount = 0
  /\ resends = 0

FairSpec ==
  /\ InitFair
  /\ [][Next]_vars
  /\ \A t \in Transactions : WF_vars(ExecuteStep(t))

\* ------------------------------------------------------------ escalation
\* _increaseGasPrice on its own: a Transaction whose request has a gas
\* price, under each bump policy, escalated again and again
InitEscalation ==
  /\ InitCommon
  /\ \E p \in EscalationPrices :
       tx = [t \in Transactions |->
               IF t \in Replaceable
               THEN Request("dest", 1, Caller.gasLimit, p, Undef)
               ELSE Request("dest", 1, Undef, Undef, Undef)]
  /\ \E k \in BumpPercentages, b \in MinGweiBumps, m \in MaxGasPrices :
       config = [DefaultConfig EXCEPT !.GAS_BUMP_PERCENTAGE = k,
                                      !.MIN_GWEI_BUMP = b,
                                      !.MAX_GAS_PRICE = m]
  /\ chainCount = 0
  /\ resends = 0

\* lines 142-157: one call of _increaseGasPrice on the request of t
Escalate(t) ==
  /\ tx[t].gasPrice # Undef
  /\ tx' = [tx EXCEPT ![t].gasPrice = _increaseGasPrice(@, config)]
  /\ escalation' = Escalation(tx[t].gasPrice, config)
  /\ UNCHANGED <<executed, hashes, receipt, events, pc, txHash, targetLive,
                 replaceVars, managerVars, networkVars, n0, prepared,
                 sendCalls, thrown, replaces, resends>>

NextEscalation == \E t \in Replaceable : Escalate(t)

EscalationSpec == InitEscalation /\ [][NextEscalation]_vars

\* ---------------------------------------------------------------- claims
InCritical(t) == pc[t] \in NetworkAwaits

Prepared == { t \in Transactions : prepared[t] }

AssignedNonces == { tx[t].nonce : t \in Prepared }

ExactSequence ==
  /\ \A t, u \in Prepared : t # u => tx[t].nonce # tx[u].nonce
  /\ Prepared # {} => AssignedNonces = n0..(n0 + Cardinality(Prepared) - 1)

C2_MutualExclusion ==
  \A t \in Transactions :
    InCritical(t) =>
      /\ mutex.holder = t
      /\ \A u \in Transactions \ {t} : ~InCritical(u)

C2_Witness ==
  \E t, u \in Transactions :
    /\ pc[t] \in {"getBlock", "estimateGas", "getGasPrice", "getLastNonce",
                  "getChainId"}
    /\ executed[u] /\ pc[u] = "acquire" /\ mutex.queue = <<u>>

Mined(i) == log[i].status = "mined"

\* C3: no two Transactions have a confirmed broadcast under the same nonce,
\* and preparation never assigns a nonce under which a broadcast of another
\* Transaction is already confirmed
C3_NoNonceConflict ==
  /\ [](\A i, j \in DOMAIN log :
          Mined(i) /\ Mined(j) /\ log[i].owner # log[j].owner
            => log[i].slot # log[j].slot)
  /\ [][\A t \in Transactions :
          ~prepared[t] /\ prepared'[t] =>
            ~\E i \in DOMAIN log :
               Mined(i) /\ log[i].owner # t /\ log[i].slot = tx'[t].nonce]_vars

\* C4: a Transaction that holds the gate eventually releases it, a waiting
\* send eventually enters its critical section, and a send that has ended,
\* in success or failure, neither holds the gate nor waits for it
C4_GateReleased ==
  /\ \A t \in Transactions : (mutex.holder = t) ~> (mutex.holder # t)
  /\ \A t \in Transactions : (pc[t] = "acquire") ~> (pc[t] # "acquire")
  /\ [](\A t \in Transactions :
          pc[t] \in {"resolved", "rejected"} =>
            /\ mutex.holder # t
            /\ \A k \in DOMAIN mutex.queue : mutex.queue[k] # t)

C4_Witness ==
  \E t, u \in Transactions :
    /\ pc[t] = "rejected" /\ hashes[t] # <<>>
    /\ pc[u] \in NetworkAwaits /\ mutex.holder = u

\* C5: a send on an executed Transaction throws and changes nothing, starts
\* no network call and takes no place at the gate; executed is never reset
C5_SecondSendThrows ==
  [][/\ sendCalls' # sendCalls =>
          \/ \E t \in Transactions : ~executed[t] /\ executed'[t]
          \/ /\ thrown' = thrown + 1
             /\ UNCHANGED <<txVars, replaceVars, managerVars, networkVars>>
     /\ \A t \in Transactions : executed[t] => executed'[t]]_vars

C5_Witness ==
  /\ thrown > 0
  /\ \E t \in Transactions : pc[t] = "waitReceipt"

\* C6: replace on a Transaction not yet sent only overwrites the pending
\* request with the given fields: no network call is started, nothing is
\* broadcast, and the manager's nonce, the gate and hashes stay as they are
C6_ReplaceBeforeSend ==
  [][Len(replaces') > Len(replaces) =>
       LET call == replaces'[Len(replaces')]
           t == call[1]
       IN ~executed[t] =>
            /\ tx' = [tx EXCEPT ![t] = call[2]]
            /\ UNCHANGED <<executed, hashes, receipt, events, pc, txHash,
                           replaceVars, managerVars, networkVars>>]_vars

C6_Witness ==
  \E t \in Transactions :
    /\ ~executed[t] /\ replaces # <<>> /\ replaces[1][1] = t
    /\ tx[t] = replaces[1][2] /\ tx[t].nonce = Caller.nonce

\* C7: the nonce preparation assigned to a Transaction never changes, and
\* every later broadcast of that Transaction carries it
C7_NonceImmutable ==
  [][\A t \in Transactions :
       prepared[t] =>
         /\ tx'[t].nonce = tx[t].nonce
         /\ Len(log') > Len(log) /\ log'[Len(log')].owner = t
              => log'[Len(log')].nonce = tx[t].nonce]_vars

C7_Witness ==
  \E t \in Transactions : \E i \in DOMAIN log :
    /\ prepared[t] /\ log[i].owner = t /\ log[i].to = "other"
    /\ log[i].nonce = tx[t].nonce /\ tx[t].nonce # Caller.nonce

\* the step is a cancel() call on t while its submission awaits the receipt
CancelsPending(t) ==
  /\ Len(replaces') > Len(replaces)
  /\ replaces'[Len(replaces')] = <<t, CancelRequest>>
  /\ pc[t] = "waitReceipt"

\* C8 as stated: the cancel of a pending submission is resubmitted under the
\* original nonce, to the own address, with value 0 and a gas price strictly
\* greater than the pending one
C8_CancelStrictlyHigher ==
  [][\A t \in Transactions :
       CancelsPending(t) =>
         /\ Len(log') = Len(log) + 1
         /\ LET e == log'[Len(log')]
            IN /\ e.owner = t /\ e.nonce = tx[t].nonce
               /\ e.to = "self" /\ e.value = 0
               /\ e.gasPrice > tx[t].gasPrice]_vars

\* C8 amended: the price of the resubmission is never lower than the pending
\* one; it is strictly greater when the pending price is below
\* MAX_GAS_PRICE and equal to it when the pending price is at MAX_GAS_PRICE
C8_CancelEscalates ==
  [][\A t \in Transactions :
       CancelsPending(t) =>
         /\ Len(log') = Len(log) + 1
         /\ LET e == log'[Len(log')]
                maxGasPrice == config.MAX_GAS_PRICE * GweiUnits
            IN /\ e.owner = t /\ e.nonce = tx[t].nonce
               /\ e.to = "self" /\ e.value = 0
               /\ e.gasPrice >= tx[t].gasPrice
               /\ e.gasPrice <= Max(maxGasPrice, tx[t].gasPrice)
               /\ tx[t].gasPrice < maxGasPrice => e.gasPrice > tx[t].gasPrice
               /\ tx[t].gasPrice >= maxGasPrice => e.gasPrice = tx[t].gasPrice]_vars

C8_Witness ==
  \E t \in Transactions : \E i, j \in DOMAIN log :
    /\ log[i].owner = t /\ log[j].owner = t /\ i < j
    /\ log[i].to = "dest" /\ log[j].to = "self"
    /\ log[i].status = "pending" /\ log[j].nonce = log[i].nonce
    /\ log[j].gasPrice > log[i].gasPrice

Quiescent(t) == pc[t] \in {"created", "resolved", "rejected"} /\ rpc[t] = None

\* C9: at every quiescent point of a Transaction the number of
\* transactionHash events emitted equals the number of hashes recorded
C9_EventPerBroadcast ==
  \A t \in Transactions : Quiescent(t) => Len(events[t]) = Len(hashes[t])

\* C10: a successful send leaves the manager's nonce at the nonce it used
\* plus 1, and the manager's nonce is written only by a step of the
\* Transaction that holds the gate, never by a replace or cancel
C10_NonceAdvance ==
  [][/\ \A t \in Transactions :
          pc[t] = "waitReceipt" /\ pc'[t] = "resolved"
            => nonce' = tx[t].nonce + 1
     /\ nonce' # nonce =>
          /\ mutex.holder \in Transactions
          /\ pc[mutex.holder] \in {"getLastNonce", "waitReceipt"}
          /\ pc'[mutex.holder] # pc[mutex.holder]
          /\ UNCHANGED <<replaceVars, replaces>>]_vars

C10_Witness ==
  \E t \in Transactions :
    /\ pc[t] = "resolved" /\ tx[t].nonce = n0 /\ nonce = n0 + 1
    /\ replaces # <<>>

\* the step is a network failure inside the _execute of t
ExecuteFails(t) == pc[t] \in NetworkAwaits /\ pc'[t] = "rejected"

\* the step is the assignment of line 120 to t
Assigns(t) == ~prepared[t] /\ prepared'[t]

\* C11: a network failure inside execute rejects the send future and leaves
\* the manager's nonce where it was, not past the nonce assigned to the
\* failing Transaction, and the next send to be prepared is assigned the
\* nonce of the Transaction that failed
C11_FailedNonceReused ==
  [][\A t \in Transactions :
       /\ ExecuteFails(t) =>
            /\ nonce' = nonce
            /\ prepared[t] => nonce' <= tx[t].nonce
       /\ Assigns(t) =>
            \A u \in Transactions \ {t} :
              pc[u] = "rejected" /\ prepared[u]
                => tx'[t].nonce = tx[u].nonce]_vars

\* the step ends a replace() or cancel() call on t with an error: an awaited
\* network call failed, or line 145 threw
ReplaceFails(t) ==
  \/ rpc[t] # None /\ rpc'[t] = None /\ events'[t] = events[t]
  \/ /\ Len(replaces') > Len(replaces)
     /\ replaces'[Len(replaces')][1] = t
     /\ executed[t] /\ rpc'[t] = None

Settled(t) == pc[t] \in {"resolved", "rejected"}

\* C12: a failure of replace or cancel leaves the future of the original
\* send as it is, and the future of a send is settled only by a step of its
\* own _execute, taken from one of its awaits while it holds the gate
C12_ReplaceFailureIsolated ==
  [][\A t \in Transactions :
       /\ ReplaceFails(t) => pc'[t] = pc[t]
       /\ ~Settled(t) /\ Settled(t)' =>
            /\ pc[t] \in NetworkAwaits /\ mutex.holder = t
            /\ UNCHANGED <<replaceVars, replaces>>]_vars

C12_Witness ==
  \E t \in Transactions : \E i \in DOMAIN log :
    /\ pc[t] = "resolved" /\ rpc[t] = None /\ receipt[t] = txHash[t]
    /\ log[i].owner = t /\ log[i].status = "rejected"

HasBroadcast(t) == \E i \in DOMAIN log : log[i].owner = t

\* the step is the first sign-and-send call made for t
FirstBroadcast(t) ==
  /\ Len(log') > Len(log) /\ log'[Len(log')].owner = t
  /\ ~HasBroadcast(t)

\* C13: of two sends, the Transaction that acquired the gate first has the
\* strictly lower nonce, and its first broadcast is made before the first
\* broadcast of the other, whatever replace, cancel and failures do
C13_GateOrder ==
  [][\A t, u \in Transactions :
       t # u =>
         /\ Assigns(u) /\ Settled(t) /\ prepared[t]
              => tx[t].nonce < tx'[u].nonce
         /\ pc[t] = "getChainId" /\ FirstBroadcast(t) /\ ~Settled(u)
              => ~HasBroadcast(u)]_vars

InSeq(x, sq) == \E k \in DOMAIN sq : sq[k] = x

\* C14: the transactionHash event of a broadcast is emitted after its hash
\* is appended to hashes and before the wait for its receipt begins: while
\* a broadcast awaits its receipt its event has been emitted
C14_EventBeforeWait ==
  \A t \in Transactions :
    /\ \A k \in DOMAIN events[t] : InSeq(events[t][k], hashes[t])
    /\ pc[t] = "waitReceipt" => InSeq(txHash[t], events[t])
    /\ rpc[t] = "waitReceipt" => InSeq(rtxHash[t], events[t])

\* C15: hashes and receipt of a Transaction are written only while that
\* Transaction holds the gate, never while the gate is free or held by
\* another Transaction
C15_WritesUnderGate ==
  [][\A t \in Transactions :
       hashes'[t] # hashes[t] \/ receipt'[t] # receipt[t]
         => mutex.holder = t]_vars

\* C16: once the receipt of a Transaction is stored or its send is
\* rejected, nothing is broadcast for it any more, nothing is appended to
\* its hashes and its receipt is not overwritten
C16_TerminalStates ==
  [][\A t \in Transactions :
       receipt[t] # 0 \/ pc[t] = "rejected" =>
         /\ ~(Len(log') > Len(log) /\ log'[Len(log')].owner = t)
         /\ hashes'[t] = hashes[t]
         /\ receipt'[t] = receipt[t]]_vars

\* C18: preparation asks the network for the account's transaction count
\* only when the manager has no nonce yet; once the manager's nonce holds a
\* count the network reported, 0 included, it is not asked again
C18_QueryOnlyWhenUnset ==
  [][\A t \in Transactions :
       pc[t] # "getLastNonce" /\ pc'[t] = "getLastNonce"
         => nonce = Undef /\ n0 = Undef]_vars

\* C19: every sign-and-send call made for a Transaction carries a nonce
\* that preparation assigned to it under the gate
C19_BroadcastHasNonce ==
  [][\A t \in Transactions :
       Len(log') > Len(log) /\ log'[Len(log')].owner = t
         => /\ prepared[t]
            /\ log'[Len(log')].nonce # Undef
            /\ log'[Len(log')].nonce = tx[t].nonce]_vars

\* C20: once the manager's nonce holds a number it holds a number for ever,
\* and every write stores a value that is not lower than the one before
C20_NonceMonotone ==
  [][nonce # Undef => nonce' # Undef /\ nonce' >= nonce]_vars

C20_Witness ==
  /\ n0 = 0 /\ nonce = 2 /\ replaces # <<>>
  /\ \E t \in Transactions : pc[t] = "rejected" /\ tx[t].nonce = 0

\* C17: escalation of price P under bump percentage K, minimum bump B and
\* maximum M sets the price to min(max(P*(100+K)/100, P+B), M) and reports
\* a bump when P < M; when P >= M it leaves the price as it is and reports
\* no bump, at every repetition; a bump never yields a price above M
C17_EscalationFormula ==
  \A t \in Replaceable :
    escalation # NoCall =>
      LET P == escalation.oldGasPrice
          K == config.GAS_BUMP_PERCENTAGE
          B == config.MIN_GWEI_BUMP * GweiUnits
          M == config.MAX_GAS_PRICE * GweiUnits
          new == tx[t].gasPrice
      IN /\ P < M =>
              /\ escalation.returned
              /\ new = Min(Max((P * (100 + K)) \div 100, P + B), M)
              /\ new <= M
         /\ P >= M => ~escalation.returned /\ new = P
         /\ new <= Max(P, M)

C17_Witness ==
  \E t \in Replaceable :
    /\ escalation.returned
    /\ tx[t].gasPrice = config.MAX_GAS_PRICE * GweiUnits
    /\ (escalation.oldGasPrice * (100 + config.GAS_BUMP_PERCENTAGE)) \div 100
         > config.MAX_GAS_PRICE * GweiUnits
    /\ escalation.oldGasPrice + config.MIN_GWEI_BUMP * GweiUnits
         < (escalation.oldGasPrice * (100 + config.GAS_BUMP_PERCENTAGE)) \div 100

====
